---- MODULE Spec2Model ----
(***************************************************************************)
(* The monthly sales dashboard of dsd.py: one Streamlit script that reads  *)
(* an uploaded CSV, normalizes its columns, validates the four required    *)
(* columns, sorts by month, computes the KPIs and builds four charts.      *)
(*                                                                         *)
(* Text.  A string is a sequence of tokens.  A space, a comma, a sign, a   *)
(* dot and a digit are always tokens of their own; a word (a header name,  *)
(* "nan", a word that is no number) is one token.  The Korean names of the *)
(* source are written in Latin letters:                                    *)
(*   wol = month, maechulaek = sales amount, maechul = sales,              *)
(*   jeonnyeondongwol = same month last year, jeonnyeon = last year,       *)
(*   jeunggamryul = growth rate, seongjangryul = rate of growth.           *)
(*                                                                         *)
(* Numbers.  The floats of the model are the integer-valued ones; a        *)
(* quotient is kept exact as a pair num/den.                               *)
(***************************************************************************)
EXTENDS Integers, Sequences, FiniteSets, TLC

VARIABLES
    uploaded,   \* the file_uploader's value: None, or the table read_csv gives
    pc,         \* the script's position in the current run
    df,         \* the module-level df
    df_norm,    \* what normalize_columns returned in this run (line 129)
    kpi,        \* total_sales, last_year_sales, avg_sales, max_idx, min_idx, growth_pct
    figs,       \* fig_indicator, fig_sales, fig_growth, fig_diff
    page,       \* what the run has put on the page, in order
    exc         \* the exception that ended the run, if one did

vars == <<uploaded, pc, df, df_norm, kpi, figs, page, exc>>

(***************************************************************************)
(* Bounds of the model.                                                    *)
(***************************************************************************)
MaxRows == 3
HbarRows == 7

(***************************************************************************)
(* Cells.  A cell is a string, a float or NaN.                             *)
(***************************************************************************)
NaN == [t |-> "nan", v |-> 0, s |-> <<>>]
NumCell(n) == [t |-> "num", v |-> n, s |-> <<>>]
StrCell(x) == [t |-> "str", v |-> 0, s |-> x]

Range(q) == {q[i] : i \in DOMAIN q}

Digits == <<"0", "1", "2", "3", "4", "5", "6", "7", "8", "9">>
IsDigit(c) == c \in Range(Digits)
DigitVal(c) == (CHOOSE i \in DOMAIN Digits : Digits[i] = c) - 1

RECURSIVE DigitsVal(_)
DigitsVal(q) ==
    IF q = <<>> THEN 0
    ELSE 10 * DigitsVal(SubSeq(q, 1, Len(q) - 1)) + DigitVal(q[Len(q)])

RECURSIVE DigitsOf(_)
DigitsOf(n) ==
    IF n < 10 THEN <<Digits[n + 1]>>
    ELSE DigitsOf(n \div 10) \o <<Digits[(n % 10) + 1]>>

\* str(x) of a float with an integer value: "12.0", "-3.0"
FloatRepr(n) ==
    (IF n < 0 THEN <<"-">> ELSE <<>>) \o DigitsOf(IF n < 0 THEN -n ELSE n) \o <<".", "0">>

\* Series.astype(str), cell by cell
astype_str(c) ==
    CASE c.t = "str" -> c.s
      [] c.t = "num" -> FloatRepr(c.v)
      [] OTHER -> <<"nan">>

\* Series.str.replace(tok, '', regex=False)
str_replace(q, tok) == SelectSeq(q, LAMBDA c : c # tok)

RECURSIVE LStrip(_)
LStrip(q) == IF q # <<>> /\ q[1] = " " THEN LStrip(Tail(q)) ELSE q

RECURSIVE RStrip(_)
RStrip(q) ==
    IF q # <<>> /\ q[Len(q)] = " " THEN RStrip(SubSeq(q, 1, Len(q) - 1)) ELSE q

\* str.strip()
strip(q) == RStrip(LStrip(q))

(***************************************************************************)
(* float(s) on the literals of the model: [-] digits* [ . 0* ], or nan.    *)
(* Anything else raises ValueError.                                        *)
(***************************************************************************)
Unsigned(q) == IF q # <<>> /\ q[1] = "-" THEN Tail(q) ELSE q

DotAt(q) == IF \E i \in DOMAIN q : q[i] = "."
            THEN CHOOSE i \in DOMAIN q : q[i] = "." /\ \A j \in 1..(i - 1) : q[j] # "."
            ELSE Len(q) + 1

IntPart(q) == SubSeq(Unsigned(q), 1, DotAt(Unsigned(q)) - 1)
FracPart(q) == SubSeq(Unsigned(q), DotAt(Unsigned(q)) + 1, Len(Unsigned(q)))

IsFloatLiteral(q) ==
    /\ IntPart(q) \o FracPart(q) # <<>>
    /\ \A i \in DOMAIN IntPart(q) : IsDigit(IntPart(q)[i])
    /\ \A i \in DOMAIN FracPart(q) : FracPart(q)[i] = "0"

CanParse(q) == q = <<"nan">> \/ IsFloatLiteral(q)

ParseFloat(q) ==
    IF q = <<"nan">> THEN NaN
    ELSE NumCell((IF q # <<>> /\ q[1] = "-" THEN -1 ELSE 1) * DigitsVal(IntPart(q)))

\* lines 41-45: the string the cell has before .astype(float); "" stands for np.nan
Cleaned(c) == str_replace(str_replace(astype_str(c), ","), " ")

CellParses(c) == Cleaned(c) = <<>> \/ CanParse(Cleaned(c))

\* lines 41-46 on one cell that parses
Coerce(c) == IF Cleaned(c) = <<>> THEN NaN ELSE ParseFloat(Cleaned(c))

(***************************************************************************)
(* Tables.  A DataFrame is its column labels and its rows, a row holding   *)
(* one cell per column.  The index after reset_index(drop=True) is the     *)
(* row's position, counted from 0 in the code and from 1 here.             *)
(***************************************************************************)
NoDF == [cols |-> <<>>, rows |-> <<>>]

Count(t, name) == Cardinality({j \in DOMAIN t.cols : t.cols[j] = name})
ColIdx(t, name) == CHOOSE j \in DOMAIN t.cols : t.cols[j] = name
Column(t, name) == [i \in DOMAIN t.rows |-> t.rows[i][ColIdx(t, name)]]
\* out[name] = cells
SetColumn(t, name, cells) ==
    [t EXCEPT !.rows = [i \in DOMAIN t.rows |->
        [t.rows[i] EXCEPT ![ColIdx(t, name)] = cells[i]]]]

\* COLUMN_MAP with one alias sent to another alias instead of the canonical name
COLUMN_MAP_Mut ==
    ("wol" :> "wol") @@ ("month" :> "wol") @@ ("Month" :> "wol") @@
    ("maechulaek" :> "maechulaek") @@ ("maechul" :> "maechulaek") @@
    ("sales" :> "maechul") @@ ("Sales" :> "maechulaek") @@
    ("jeonnyeondongwol" :> "jeonnyeondongwol") @@ ("jeonnyeon" :> "jeonnyeondongwol") @@
    ("prev" :> "jeonnyeondongwol") @@ ("jeonnyeon_dongwol" :> "jeonnyeondongwol") @@
    ("jeunggamryul" :> "jeunggamryul") @@ ("jeunggam(%)" :> "jeunggamryul") @@
    ("seongjangryul" :> "jeunggamryul") @@ ("growth" :> "jeunggamryul")

COLUMN_MAP ==
    ("wol" :> "wol") @@ ("month" :> "wol") @@ ("Month" :> "wol") @@
    ("maechulaek" :> "maechulaek") @@ ("maechul" :> "maechulaek") @@
    ("sales" :> "maechulaek") @@ ("Sales" :> "maechulaek") @@
    ("jeonnyeondongwol" :> "jeonnyeondongwol") @@ ("jeonnyeon" :> "jeonnyeondongwol") @@
    ("prev" :> "jeonnyeondongwol") @@ ("jeonnyeon_dongwol" :> "jeonnyeondongwol") @@
    ("jeunggamryul" :> "jeunggamryul") @@ ("jeunggam(%)" :> "jeunggamryul") @@
    ("seongjangryul" :> "jeunggamryul") @@ ("growth" :> "jeunggamryul")

WOL == <<"wol">>
MAECHULAEK == <<"maechulaek">>
JEONNYEONDONGWOL == <<"jeonnyeondongwol">>
JEUNGGAMRYUL == <<"jeunggamryul">>

\* lines 35-36: key = str(c).strip(); COLUMN_MAP.get(key, key)
RenameHeader(c) ==
    LET key == strip(c)
    IN  IF Len(key) = 1 /\ key[1] \in DOMAIN COLUMN_MAP
        THEN <<COLUMN_MAP[key[1]]>>
        ELSE key

\* line 37
Renamed(t) == [t EXCEPT !.cols = [j \in DOMAIN t.cols |-> RenameHeader(t.cols[j])]]

NoExc == [type |-> "none", at |-> "none"]
Raised(type, at) == [ok |-> FALSE, exc |-> [type |-> type, at |-> at], df |-> NoDF]
Returned(t) == [ok |-> TRUE, exc |-> NoExc, df |-> t]

NumericCols == <<MAECHULAEK, JEONNYEONDONGWOL, JEUNGGAMRYUL>>

(***************************************************************************)
(* lines 39-46, from the k-th numeric column on.  out[col] of a label that *)
(* two columns carry is a DataFrame, which has no .str: AttributeError.    *)
(* A cell that float() rejects raises ValueError.                          *)
(***************************************************************************)
RECURSIVE CoerceFrom(_, _)
CoerceFrom(t, k) ==
    IF k > Len(NumericCols) THEN Returned(t)
    ELSE LET col == NumericCols[k]
         IN  IF Count(t, col) = 0 THEN CoerceFrom(t, k + 1)
             ELSE IF Count(t, col) > 1 THEN Raised("AttributeError", "normalize_columns")
             ELSE IF \E i \in DOMAIN t.rows : ~CellParses(Column(t, col)[i])
                  THEN Raised("ValueError", "normalize_columns")
             ELSE CoerceFrom(SetColumn(t, col, [i \in DOMAIN t.rows |-> Coerce(Column(t, col)[i])]), k + 1)

\* line 49 on one cell
MonthCell(c) == StrCell(strip(astype_str(c)))

\* lines 48-49
EnsureStringMonth(t) ==
    IF Count(t, WOL) = 0 THEN Returned(t)
    ELSE IF Count(t, WOL) > 1 THEN Raised("AttributeError", "normalize_columns")
    ELSE Returned(SetColumn(t, WOL, [i \in DOMAIN t.rows |-> MonthCell(Column(t, WOL)[i])]))

normalize_columns(t) ==
    LET num == CoerceFrom(Renamed(t), 1)
    IN  IF num.ok THEN EnsureStringMonth(num.df) ELSE num

\* line 53
must == <<WOL, MAECHULAEK, JEONNYEONDONGWOL, JEUNGGAMRYUL>>

\* require_columns listing every required column when one is missing
require_columns_Mut(t) ==
    IF \E c \in Range(must) : c \notin Range(t.cols) THEN must ELSE <<>>

\* lines 53-54
require_columns(t) == SelectSeq(must, LAMBDA c : c \notin Range(t.cols))

(***************************************************************************)
(* Sorting.  sort_values uses quicksort, which is not stable: rows with    *)
(* equal keys may come out in any order.  Orders(n, le) is the set of      *)
(* arrangements of the rows 1..n that are ascending for the total          *)
(* preorder le.                                                            *)
(***************************************************************************)
InsertAt(q, k, x) == SubSeq(q, 1, k - 1) \o <<x>> \o SubSeq(q, k, Len(q))

Inserts(q, x, le) ==
    {InsertAt(q, k, x) : k \in {k \in 1..(Len(q) + 1) :
        /\ \A j \in 1..(k - 1) : le[q[j]][x]
        /\ \A j \in k..Len(q) : le[x][q[j]]}}

RECURSIVE Orders(_, _)
Orders(n, le) ==
    IF n = 0 THEN {<<>>}
    ELSE UNION {Inserts(q, n, le) : q \in Orders(n - 1, le)}

\* the code point that orders a token
Code(c) ==
    CASE c = " " -> 32
      [] c = "," -> 44
      [] c = "-" -> 45
      [] c = "." -> 46
      [] IsDigit(c) -> 48 + DigitVal(c)
      [] OTHER -> 110

\* Python's < on str
RECURSIVE LexLess(_, _)
LexLess(a, b) ==
    IF b = <<>> THEN FALSE
    ELSE IF a = <<>> THEN TRUE
    ELSE IF Code(a[1]) # Code(b[1]) THEN Code(a[1]) < Code(b[1])
    ELSE LexLess(Tail(a), Tail(b))

MonthLe(t) ==
    [i \in DOMAIN t.rows |-> [j \in DOMAIN t.rows |->
        ~LexLess(Column(t, WOL)[j].s, Column(t, WOL)[i].s)]]

Reorder(t, o) == [t EXCEPT !.rows = [k \in DOMAIN o |-> t.rows[o[k]]]]

\* the rows left in the order of the file
sort_values_Mut(t) == {t}

\* line 133: df.sort_values(WOL).reset_index(drop=True), every outcome
sort_values(t) == {Reorder(t, o) : o \in Orders(Len(t.rows), MonthLe(t))}

(***************************************************************************)
(* Aggregates.  sum, mean, idxmax and idxmin skip NaN.                     *)
(***************************************************************************)
RECURSIVE SumFrom(_, _)
SumFrom(col, i) ==
    IF i > Len(col) THEN 0
    ELSE (IF col[i].t = "num" THEN col[i].v ELSE 0) + SumFrom(col, i + 1)

\* Series.sum()
sum(col) == SumFrom(col, 1)

\* Series.count()
count(col) == Cardinality({i \in DOMAIN col : col[i].t = "num"})

\* a quotient num/den; 0/0 is NaN; raised: the division raised ZeroDivisionError
Quot(n, d) == [raised |-> FALSE, num |-> n, den |-> d]
ZeroDivisionError == [raised |-> TRUE, num |-> 0, den |-> 0]
QuotEq(a, b) == a.raised = b.raised /\ a.num * b.den = b.num * a.den /\ (a.den = 0) = (b.den = 0)

\* Python's a / b on floats
truediv(a, b) == IF b = 0 THEN ZeroDivisionError ELSE Quot(a, b)
times(q, k) == IF q.raised THEN q ELSE Quot(q.num * k, q.den)

\* Series.mean(): NaN when no cell is a number
mean(col) == Quot(sum(col), count(col))

\* the first position whose value is the greatest, 0 when there is none
RECURSIVE ArgMaxFrom(_, _, _)
ArgMaxFrom(col, i, best) ==
    IF i > Len(col) THEN best
    ELSE IF col[i].t = "num" /\ (best = 0 \/ col[i].v > col[best].v)
         THEN ArgMaxFrom(col, i + 1, i)
         ELSE ArgMaxFrom(col, i + 1, best)

RECURSIVE ArgMinFrom(_, _, _)
ArgMinFrom(col, i, best) ==
    IF i > Len(col) THEN best
    ELSE IF col[i].t = "num" /\ (best = 0 \/ col[i].v < col[best].v)
         THEN ArgMinFrom(col, i + 1, i)
         ELSE ArgMinFrom(col, i + 1, best)

\* idxmax taking the last position of the greatest value
RECURSIVE ArgMaxLastFrom(_, _, _)
ArgMaxLastFrom(col, i, best) ==
    IF i > Len(col) THEN best
    ELSE IF col[i].t = "num" /\ (best = 0 \/ col[i].v >= col[best].v)
         THEN ArgMaxLastFrom(col, i + 1, i)
         ELSE ArgMaxLastFrom(col, i + 1, best)

idxmax_Mut(col) == ArgMaxLastFrom(col, 1, 0)

\* Series.idxmax(), Series.idxmin(): a position, or 0 where the code raises ValueError
idxmax(col) == ArgMaxFrom(col, 1, 0)
idxmin(col) == ArgMinFrom(col, 1, 0)

\* growth_pct without the test of last_year_sales
growth_pct_Mut(total_sales, last_year_sales) ==
    times(truediv(total_sales - last_year_sales, last_year_sales), 100)

\* line 141
growth_pct(total_sales, last_year_sales) ==
    IF last_year_sales # 0
    THEN times(truediv(total_sales - last_year_sales, last_year_sales), 100)
    ELSE Quot(0, 1)

NoKPI == [set |-> FALSE, total_sales |-> 0, last_year_sales |-> 0, avg_sales |-> Quot(0, 1),
          max_idx |-> 0, min_idx |-> 0, growth_pct |-> Quot(0, 1)]

\* lines 136-141 when nothing raises
KPIs(t) ==
    [set |-> TRUE,
     total_sales |-> sum(Column(t, MAECHULAEK)),
     last_year_sales |-> sum(Column(t, JEONNYEONDONGWOL)),
     avg_sales |-> mean(Column(t, MAECHULAEK)),
     max_idx |-> idxmax(Column(t, MAECHULAEK)),
     min_idx |-> idxmin(Column(t, MAECHULAEK)),
     growth_pct |-> growth_pct(sum(Column(t, MAECHULAEK)), sum(Column(t, JEONNYEONDONGWOL)))]

(***************************************************************************)
(* Charts.  Colours: "highlight" is rgba(255,176,32,0.95), "plain" is      *)
(* rgba(200,210,225,0.7), "up" is rgba(58,174,216,0.9), "down" is          *)
(* rgba(225,84,84,0.9).                                                    *)
(***************************************************************************)
\* lines 59-69: the figure's value, its delta reference and the growth in its title
make_indicator(total, last_year_total) ==
    [value |-> total, reference |-> last_year_total,
     growth |-> IF last_year_total # 0
                THEN times(truediv(total - last_year_total, last_year_total), 100)
                ELSE Quot(0, 1)]

\* lines 71-87
line_sales(t) ==
    [x |-> Column(t, WOL), y |-> Column(t, MAECHULAEK), y_prev |-> Column(t, JEONNYEONDONGWOL)]

\* lines 89-98: NaN >= 0 is False
bar_growth(t) ==
    [x |-> Column(t, WOL), y |-> Column(t, JEUNGGAMRYUL),
     colors |-> [i \in DOMAIN t.rows |->
        IF Column(t, JEUNGGAMRYUL)[i].t = "num" /\ Column(t, JEUNGGAMRYUL)[i].v >= 0
        THEN "up" ELSE "down"]]

\* float subtraction: NaN when either side is
Minus(a, b) == IF a.t = "num" /\ b.t = "num" THEN NumCell(a.v - b.v) ELSE NaN

\* line 101: the new column of tmp, by row of df
DiffColumn(t) ==
    [i \in DOMAIN t.rows |-> Minus(Column(t, MAECHULAEK)[i], Column(t, JEONNYEONDONGWOL)[i])]

\* ascending, NaN last
DiffLe(t) ==
    [i \in DOMAIN t.rows |-> [j \in DOMAIN t.rows |->
        \/ DiffColumn(t)[j].t = "nan"
        \/ /\ DiffColumn(t)[i].t = "num"
           /\ DiffColumn(t)[i].v <= DiffColumn(t)[j].v]]

\* tmp.head(3) and tmp.tail(3), as positions of tmp
Head3(n) == {k \in 1..n : k <= 3}
Tail3(n) == {k \in 1..n : k > n - 3}

\* lines 101-109 for one outcome o of the sort
HbarFigure(t, o) ==
    LET n == Len(o)
        months == [k \in 1..n |-> Column(t, WOL)[o[k]]]
        top3 == {months[k] : k \in Tail3(n)}
        bottom3 == {months[k] : k \in Head3(n)}
    IN  [x |-> [k \in 1..n |-> DiffColumn(t)[o[k]]],
         y |-> months,
         colors |-> [k \in 1..n |->
            IF months[k] \in top3 \/ months[k] \in bottom3 THEN "highlight" ELSE "plain"]]

\* lines 100-116, every outcome
hbar_diff(t) == {HbarFigure(t, o) : o \in Orders(Len(t.rows), DiffLe(t))}

NoFigs ==
    [set |-> FALSE,
     fig_indicator |-> [value |-> 0, reference |-> 0, growth |-> Quot(0, 1)],
     fig_sales |-> [x |-> <<>>, y |-> <<>>, y_prev |-> <<>>],
     fig_growth |-> [x |-> <<>>, y |-> <<>>, colors |-> <<>>],
     fig_diff |-> [x |-> <<>>, y |-> <<>>, colors |-> <<>>]]

\* lines 157-163, every outcome
Figures(t, k) ==
    {[set |-> TRUE,
      fig_indicator |-> make_indicator(k.total_sales, k.last_year_sales),
      fig_sales |-> line_sales(t),
      fig_growth |-> bar_growth(t),
      fig_diff |-> d] : d \in hbar_diff(t)}

(***************************************************************************)
(* The page: the elements the run has written, the names st.error lists,   *)
(* and the values the four st.metric calls are given (each is shown        *)
(* through a format, ",.0f" or ".2f", which the model does not apply).     *)
(***************************************************************************)
NoMetrics ==
    [set |-> FALSE, total |-> 0, delta |-> Quot(0, 1), avg |-> Quot(0, 1),
     max_value |-> NaN, max_month |-> NaN, min_value |-> NaN, min_month |-> NaN]

EmptyPage == [elems |-> <<>>, missing |-> <<>>, metrics |-> NoMetrics]

\* lines 143-151
Metrics(t, k) ==
    [set |-> TRUE, total |-> k.total_sales, delta |-> k.growth_pct, avg |-> k.avg_sales,
     max_value |-> Column(t, MAECHULAEK)[k.max_idx],
     max_month |-> Column(t, WOL)[k.max_idx],
     min_value |-> Column(t, MAECHULAEK)[k.min_idx],
     min_month |-> Column(t, WOL)[k.min_idx]]

Show(pg, what) == [pg EXCEPT !.elems = @ \o what]

None == [file |-> FALSE, table |-> NoDF]
File(t) == [file |-> TRUE, table |-> t]

(***************************************************************************)
(* Uploaded files.  A file is the table read_csv makes of it: its cells    *)
(* are strings, or NaN where the field is empty.  A row of a file is       *)
(* drawn as (month, sales, prior-year sales, growth rate); a column holds  *)
(* the field its header names, any other column a note.                    *)
(***************************************************************************)
RowChoices ==
    { [m |-> StrCell(<<"1", "0">>), s |-> StrCell(<<"1", ",", "0">>),
       p |-> StrCell(<<"9">>), g |-> StrCell(<<"5">>)],
      [m |-> StrCell(<<" ", "9", " ">>), s |-> StrCell(<<"2", " ", "0">>),
       p |-> StrCell(<<"-", "9">>), g |-> StrCell(<<"-", "5">>)],
      [m |-> StrCell(<<"9">>), s |-> StrCell(<<"2", "0", ".", "0">>),
       p |-> StrCell(<<" ">>), g |-> StrCell(<<"0">>)],
      [m |-> StrCell(<<"0", "8">>), s |-> NaN,
       p |-> StrCell(<<"0">>), g |-> NaN],
      [m |-> StrCell(<<"0", "9">>), s |-> StrCell(<<"1", "x">>),
       p |-> StrCell(<<"9">>), g |-> StrCell(<<"5">>)] }

PlainRow ==
    [m |-> StrCell(<<"1", "0">>), s |-> StrCell(<<"1", ",", "0">>),
     p |-> StrCell(<<"9">>), g |-> StrCell(<<"5">>)]

CellFor(header, row) ==
    CASE RenameHeader(header) = WOL -> row.m
      [] RenameHeader(header) = MAECHULAEK -> row.s
      [] RenameHeader(header) = JEONNYEONDONGWOL -> row.p
      [] RenameHeader(header) = JEUNGGAMRYUL -> row.g
      [] OTHER -> StrCell(<<"note">>)

MakeTable(headers, rowseq) ==
    [cols |-> headers,
     rows |-> [i \in DOMAIN rowseq |-> [j \in DOMAIN headers |-> CellFor(headers[j], rowseq[i])]]]

SeqsUpTo(S, n) == UNION {[1..k -> S] : k \in 0..n}

GoodHeaders == << <<"wol">>, <<"sales">>, <<"jeonnyeon">>, <<"jeunggam(%)">> >>

MasterHeaders ==
    << <<" ", "Month">>, <<"wol">>, <<"sales">>, <<"maechul", " ">>, <<"prev">>,
       <<"growth">>, <<"memo">>, <<"memo", " ">> >>

RECURSIVE Pick(_, _, _)
Pick(q, S, i) ==
    IF i > Len(q) THEN <<>>
    ELSE (IF i \in S THEN <<q[i]>> ELSE <<>>) \o Pick(q, S, i + 1)

HeaderLists == {Pick(MasterHeaders, S, 1) : S \in (SUBSET DOMAIN MasterHeaders) \ {{}}}

Files ==
    {MakeTable(GoodHeaders, rs) : rs \in SeqsUpTo(RowChoices, MaxRows)}
    \cup {MakeTable(h, rs) : h \in HeaderLists, rs \in {<<>>, <<PlainRow>>}}

(***************************************************************************)
(* The script, one action per section.  A run ends "done" (line 180),      *)
(* "stopped" (st.stop()) or "crashed" (an exception nothing catches:       *)
(* Streamlit shows it on the page and ends the run).                       *)
(***************************************************************************)
EndStates == {"done", "stopped", "crashed"}

Crash(e) ==
    /\ pc' = "crashed"
    /\ exc' = e
    /\ page' = Show(page, <<"exception">>)

\* lines 119-127
Load ==
    /\ pc = "load"
    /\ IF ~uploaded.file
       THEN /\ page' = Show(page, <<"info">>)
            /\ pc' = "stopped"
            /\ UNCHANGED df
       ELSE /\ df' = uploaded.table
            /\ pc' = "normalize"
            /\ UNCHANGED page
    /\ UNCHANGED <<uploaded, df_norm, kpi, figs, exc>>

\* line 129
Normalize ==
    /\ pc = "normalize"
    /\ IF normalize_columns(df).ok
       THEN /\ df' = normalize_columns(df).df
            /\ df_norm' = normalize_columns(df).df
            /\ pc' = "require"
            /\ UNCHANGED <<page, exc>>
       ELSE /\ Crash(normalize_columns(df).exc)
            /\ UNCHANGED <<df, df_norm>>
    /\ UNCHANGED <<uploaded, kpi, figs>>

\* lines 130, 52-57
Require ==
    /\ pc = "require"
    /\ IF require_columns(df) # <<>>
       THEN /\ page' = [Show(page, <<"error">>) EXCEPT !.missing = require_columns(df)]
            /\ pc' = "stopped"
       ELSE /\ pc' = "sort"
            /\ UNCHANGED page
    /\ UNCHANGED <<uploaded, df, df_norm, kpi, figs, exc>>

\* line 133
Sort ==
    /\ pc = "sort"
    /\ df' \in sort_values(df)
    /\ pc' = "kpi"
    /\ UNCHANGED <<uploaded, df_norm, kpi, figs, page, exc>>

\* lines 136-141: idxmax and idxmin raise ValueError when no cell is a number
ComputeKPIs ==
    /\ pc = "kpi"
    /\ IF idxmax(Column(df, MAECHULAEK)) = 0 \/ idxmin(Column(df, MAECHULAEK)) = 0
       THEN /\ kpi' = [NoKPI EXCEPT !.total_sales = KPIs(df).total_sales,
                                    !.last_year_sales = KPIs(df).last_year_sales,
                                    !.avg_sales = KPIs(df).avg_sales]
            /\ Crash([type |-> "ValueError", at |-> "idxmax"])
       ELSE IF KPIs(df).growth_pct.raised
       THEN /\ kpi' = [KPIs(df) EXCEPT !.set = FALSE, !.growth_pct = Quot(0, 1)]
            /\ Crash([type |-> "ZeroDivisionError", at |-> "growth_pct"])
       ELSE /\ kpi' = KPIs(df)
            /\ pc' = "metrics"
            /\ UNCHANGED <<page, exc>>
    /\ UNCHANGED <<uploaded, df, df_norm, figs>>

\* lines 143-153
ShowMetrics ==
    /\ pc = "metrics"
    /\ page' = [Show(page, <<"metric", "metric", "metric", "metric", "markdown">>)
                  EXCEPT !.metrics = Metrics(df, kpi)]
    /\ pc' = "charts"
    /\ UNCHANGED <<uploaded, df, df_norm, kpi, figs, exc>>

\* lines 157-163
Charts ==
    /\ pc = "charts"
    /\ IF make_indicator(kpi.total_sales, kpi.last_year_sales).growth.raised
       THEN /\ Crash([type |-> "ZeroDivisionError", at |-> "make_indicator"])
            /\ UNCHANGED figs
       ELSE /\ figs' \in Figures(df, kpi)
            /\ pc' = "layout"
            /\ UNCHANGED <<page, exc>>
    /\ UNCHANGED <<uploaded, df, df_norm, kpi>>

\* lines 166-180
Layout ==
    /\ pc = "layout"
    /\ page' = Show(page, <<"plotly_chart", "plotly_chart", "plotly_chart", "plotly_chart",
                            "dataframe">>)
    /\ pc' = "done"
    /\ UNCHANGED <<uploaded, df, df_norm, kpi, figs, exc>>

(***************************************************************************)
(* A rerun.  When the uploader's value changes, Streamlit runs the script  *)
(* again from line 1 on an empty page; the script keeps nothing in         *)
(* st.session_state or in a cache, so every name it binds starts unbound.  *)
(***************************************************************************)
\* a rerun that keeps the page of the run before
Fresh_Mut(f) ==
    /\ uploaded' = f
    /\ pc' = "load"
    /\ df' = NoDF
    /\ df_norm' = NoDF
    /\ kpi' = NoKPI
    /\ figs' = NoFigs
    /\ page' = page
    /\ exc' = NoExc

Fresh(f) ==
    /\ uploaded' = f
    /\ pc' = "load"
    /\ df' = NoDF
    /\ df_norm' = NoDF
    /\ kpi' = NoKPI
    /\ figs' = NoFigs
    /\ page' = EmptyPage
    /\ exc' = NoExc

Rerun ==
    /\ pc \in EndStates
    /\ \E f \in {None} \cup {File(t) : t \in Files} : f # uploaded /\ Fresh(f)

Init ==
    /\ uploaded = None
    /\ pc = "load"
    /\ df = NoDF
    /\ df_norm = NoDF
    /\ kpi = NoKPI
    /\ figs = NoFigs
    /\ page = EmptyPage
    /\ exc = NoExc

Run == Load \/ Normalize \/ Require \/ Sort \/ ComputeKPIs \/ ShowMetrics \/ Charts \/ Layout

Next == Run \/ Rerun

Spec == Init /\ [][Next]_vars

(***************************************************************************)
(* normalize_columns applied twice, for the claims about it as a function. *)
(***************************************************************************)
NormFiles ==
    {MakeTable(h, rs) : h \in HeaderLists \cup {GoodHeaders},
                        rs \in SeqsUpTo(RowChoices, MaxRows - 1)}

NormInit ==
    /\ uploaded \in {File(t) : t \in NormFiles}
    /\ pc = "apply"
    /\ df = uploaded.table
    /\ df_norm = NoDF
    /\ kpi = NoKPI
    /\ figs = NoFigs
    /\ page = EmptyPage
    /\ exc = NoExc

\* df = normalize_columns(df)
Apply ==
    /\ pc = "apply"
    /\ IF normalize_columns(df).ok
       THEN /\ df' = normalize_columns(df).df
            /\ df_norm' = normalize_columns(df).df
            /\ pc' = "reapply"
            /\ UNCHANGED <<page, exc>>
       ELSE /\ Crash(normalize_columns(df).exc)
            /\ UNCHANGED <<df, df_norm>>
    /\ UNCHANGED <<uploaded, kpi, figs>>

\* normalize_columns of the table the first call returned
ApplyAgain ==
    /\ pc = "reapply"
    /\ IF normalize_columns(df).ok
       THEN /\ df' = normalize_columns(df).df
            /\ pc' = "applied"
            /\ UNCHANGED <<page, exc>>
       ELSE /\ Crash(normalize_columns(df).exc)
            /\ UNCHANGED df
    /\ UNCHANGED <<uploaded, df_norm, kpi, figs>>

NormNext == Apply \/ ApplyAgain

SpecNorm == NormInit /\ [][NormNext]_vars

(***************************************************************************)
(* One run of the script on a file of HbarRows - 1 or HbarRows rows with   *)
(* pairwise distinct differences; at most two rows share a month.          *)
(***************************************************************************)
HbarMonth(i, dup) == StrCell(<<"0">> \o DigitsOf(IF i = dup THEN i - 1 ELSE i))

HbarDiff(i, n, shift, rev) ==
    IF rev THEN n - ((i - 1 + shift) % n) ELSE ((i - 1 + shift) % n) + 1

HbarRow(i, n, dup, shift, rev) ==
    [m |-> HbarMonth(i, dup),
     s |-> StrCell(DigitsOf(5 + HbarDiff(i, n, shift, rev))),
     p |-> StrCell(<<"5">>),
     g |-> StrCell(<<"0">>)]

HbarFiles ==
    {MakeTable(GoodHeaders, [i \in 1..n |-> HbarRow(i, n, dup, shift, rev)]) :
        n \in {HbarRows - 1, HbarRows}, dup \in 1..HbarRows, shift \in 0..(HbarRows - 1),
        rev \in BOOLEAN}

HbarInit ==
    /\ uploaded \in {File(t) : t \in HbarFiles}
    /\ pc = "load"
    /\ df = NoDF
    /\ df_norm = NoDF
    /\ kpi = NoKPI
    /\ figs = NoFigs
    /\ page = EmptyPage
    /\ exc = NoExc

SpecHbar == HbarInit /\ [][Run]_vars

(***************************************************************************)
(* Properties.                                                             *)
(***************************************************************************)
MissingSet(t) == {c \in Range(must) : c \notin Range(t.cols)}

\* normalize_columns has returned a table in this run
Normalized == df_norm # NoDF
\* require_columns has been called in this run
Required == Normalized /\ pc # "require"
\* the table passed require_columns
Validated == Required /\ MissingSet(df_norm) = {}
\* line 133 has run
Sorted == Validated /\ pc # "sort"
\* lines 136-141 have run
Aggregated == Sorted /\ pc # "kpi"

SameRows(a, b) ==
    /\ Len(a) = Len(b)
    /\ \A r \in Range(a) \cup Range(b) :
          Cardinality({i \in DOMAIN a : a[i] = r}) = Cardinality({i \in DOMAIN b : b[i] = r})

\* C1: once require_columns has been called on a normalized table that lacks
\* some required column, the run has stopped on st.error, the error lists
\* exactly the absent required columns, each once, and the run has sorted
\* nothing, computed no KPI, built no chart and shown nothing else.
C1_MissingColumnsHalt ==
    (Required /\ MissingSet(df_norm) # {}) =>
        /\ pc = "stopped"
        /\ page.elems = <<"error">>
        /\ Range(page.missing) = MissingSet(df_norm)
        /\ Len(page.missing) = Cardinality(MissingSet(df_norm))
        /\ df = df_norm
        /\ ~kpi.set /\ ~figs.set /\ ~page.metrics.set

\* a run stopped because exactly the growth-rate column is missing
C1_Witness ==
    /\ pc = "stopped"
    /\ page.missing = <<JEUNGGAMRYUL>>
    /\ MissingSet(df_norm) = {JEUNGGAMRYUL}

\* C2: no run ends in a ZeroDivisionError; once the KPIs are computed the
\* totals are the column sums over all rows, growth_pct is
\* (total_sales - last_year_sales) / last_year_sales * 100 when
\* last_year_sales is not zero and exactly 0 when it is; and the growth
\* make_indicator computes equals growth_pct.
C2_GrowthPct ==
    /\ exc.type # "ZeroDivisionError"
    /\ kpi.set =>
        /\ kpi.total_sales = sum(Column(df, MAECHULAEK))
        /\ kpi.last_year_sales = sum(Column(df, JEONNYEONDONGWOL))
        /\ ~kpi.growth_pct.raised
        /\ kpi.growth_pct.den # 0
        /\ IF kpi.last_year_sales # 0
           THEN kpi.growth_pct.num * kpi.last_year_sales
                    = (kpi.total_sales - kpi.last_year_sales) * 100 * kpi.growth_pct.den
           ELSE kpi.growth_pct.num = 0
    /\ figs.set => QuotEq(figs.fig_indicator.growth, kpi.growth_pct)

\* every prior-year cell is missing, the total is 0 and the charts are built
C2_Witness ==
    /\ figs.set
    /\ Len(df.rows) > 1
    /\ \A i \in DOMAIN df.rows : Column(df, JEONNYEONDONGWOL)[i] = NaN
    /\ kpi.total_sales # 0
    /\ kpi.growth_pct = Quot(0, 1)

\* C3 as claimed: on the validated table with no rows the aggregate step
\* completes and the run goes on to render.
C3_Claim ==
    (Aggregated /\ Len(df.rows) = 0) => (pc # "crashed" /\ kpi.set)

HasDuplicateField(t) == \E c \in Range(must) : Count(Renamed(t), c) > 1

HasUnparseableCell(t) ==
    \E c \in Range(NumericCols) :
        /\ Count(Renamed(t), c) = 1
        /\ \E i \in DOMAIN t.rows : ~CellParses(Column(Renamed(t), c)[i])

\* C4 as claimed: a run on a table with an unparseable numeric cell ends
\* stopped on an error message, not in an uncaught exception.
C4_Claim ==
    (pc \in EndStates /\ uploaded.file /\ ~HasDuplicateField(uploaded.table)
        /\ HasUnparseableCell(uploaded.table)) =>
        /\ pc = "stopped"
        /\ page.elems = <<"error">>

PairwiseDistinct(col) ==
    \A i, j \in DOMAIN col : (i # j) => (col[i].t = "num" /\ col[j].t = "num" /\ col[i].v # col[j].v)

\* the differences with fewer than three differences above them, below them
TopDiffs(col) ==
    {col[i].v : i \in {i \in DOMAIN col :
        Cardinality({j \in DOMAIN col : col[j].v > col[i].v}) < 3}}
BottomDiffs(col) ==
    {col[i].v : i \in {i \in DOMAIN col :
        Cardinality({j \in DOMAIN col : col[j].v < col[i].v}) < 3}}

\* the differences of the highlighted bars
Highlighted(fig) == {fig.x[k].v : k \in {k \in DOMAIN fig.colors : fig.colors[k] = "highlight"}}

\* C5 as claimed: on a table of at least six rows with pairwise distinct
\* differences the highlighted rows (named by their differences) are the
\* three of largest and the three of smallest difference, six rows in all,
\* also when two rows share a month.
C5_Claim ==
    (figs.set /\ Len(df.rows) >= 6 /\ PairwiseDistinct(DiffColumn(df))) =>
        /\ Highlighted(figs.fig_diff) = TopDiffs(DiffColumn(df)) \cup BottomDiffs(DiffColumn(df))
        /\ Cardinality(Highlighted(figs.fig_diff)) = 6
        /\ Cardinality(TopDiffs(DiffColumn(df))) = 3
        /\ Cardinality(BottomDiffs(DiffColumn(df))) = 3
        /\ TopDiffs(DiffColumn(df)) \cap BottomDiffs(DiffColumn(df)) = {}

\* C6: whenever normalize_columns returns a table, applying it to that table
\* returns the same table: same headers in the same order, same rows in the
\* same order, same cells, NaN where NaN was.
C6_Idempotent ==
    (Normalized /\ pc \notin {"apply", "reapply"}) =>
        /\ pc = "applied"
        /\ exc = NoExc
        /\ df = df_norm

\* the second call has returned, on a table the first call changed in its
\* headers and in a numeric cell, with a NaN cell in it
C6_Witness ==
    /\ pc = "applied"
    /\ df_norm.cols # uploaded.table.cols
    /\ \E i \in DOMAIN df.rows : \E j \in DOMAIN df.cols :
          df.rows[i][j].t = "num" /\ df.rows[i][j] # uploaded.table.rows[i][j]
    /\ \E i \in DOMAIN df.rows : \E j \in DOMAIN df.cols : df.rows[i][j] = NaN

\* C7: after line 133 the table has the columns and, as a multiset, the rows
\* normalize_columns returned, and the months of adjacent rows are in
\* ascending order of Python's string comparison.
C7_SortedPermutation ==
    Sorted =>
        /\ df.cols = df_norm.cols
        /\ SameRows(df.rows, df_norm.rows)
        /\ \A i \in 1..(Len(df.rows) - 1) :
              ~LexLess(Column(df, WOL)[i + 1].s, Column(df, WOL)[i].s)

\* three rows that the sort has put in another order, "10" before "9"
C7_Witness ==
    /\ Sorted
    /\ Len(df.rows) = 3
    /\ df.rows # df_norm.rows
    /\ Column(df, WOL)[1].s = <<"1", "0">>
    /\ Column(df, WOL)[3].s = <<"9">>

\* C8: once the metrics are shown, max_idx is the first row in sorted order
\* whose sales is the greatest, min_idx the first whose sales is the least,
\* and the two metrics show that row's sales and month.
C8_FirstExtreme ==
    page.metrics.set =>
        LET col == Column(df, MAECHULAEK)
            hi == kpi.max_idx
            lo == kpi.min_idx
        IN  /\ hi \in DOMAIN col /\ col[hi].t = "num"
            /\ lo \in DOMAIN col /\ col[lo].t = "num"
            /\ \A j \in DOMAIN col : col[j].t = "num" =>
                  /\ col[j].v <= col[hi].v
                  /\ col[j].v >= col[lo].v
                  /\ (col[j].v = col[hi].v) => hi <= j
                  /\ (col[j].v = col[lo].v) => lo <= j
            /\ page.metrics.max_value = df.rows[hi][ColIdx(df, MAECHULAEK)]
            /\ page.metrics.max_month = df.rows[hi][ColIdx(df, WOL)]
            /\ page.metrics.min_value = df.rows[lo][ColIdx(df, MAECHULAEK)]
            /\ page.metrics.min_month = df.rows[lo][ColIdx(df, WOL)]

\* the greatest sales stands in two rows, and is not also the least
C8_Witness ==
    /\ page.metrics.set
    /\ \E j \in DOMAIN df.rows :
          j > kpi.max_idx /\ Column(df, MAECHULAEK)[j] = Column(df, MAECHULAEK)[kpi.max_idx]
    /\ kpi.max_idx # kpi.min_idx

\* what a run on f alone ends with
AfterSort(t) ==
    LET base == [pc |-> "crashed", df |-> t, kpi |-> NoKPI, figs |-> NoFigs,
                 page |-> Show(EmptyPage, <<"exception">>),
                 exc |-> [type |-> "ValueError", at |-> "idxmax"]]
    IN  IF idxmax(Column(t, MAECHULAEK)) = 0
        THEN {[base EXCEPT !.kpi = [NoKPI EXCEPT !.total_sales = KPIs(t).total_sales,
                                                 !.last_year_sales = KPIs(t).last_year_sales,
                                                 !.avg_sales = KPIs(t).avg_sales]]}
        ELSE {[pc |-> "done", df |-> t, kpi |-> KPIs(t), figs |-> f,
               page |-> [elems |-> <<"metric", "metric", "metric", "metric", "markdown",
                                     "plotly_chart", "plotly_chart", "plotly_chart",
                                     "plotly_chart", "dataframe">>,
                         missing |-> <<>>,
                         metrics |-> Metrics(t, KPIs(t))],
               exc |-> NoExc] : f \in Figures(t, KPIs(t))}

RunResults(f) ==
    LET blank == [pc |-> "stopped", df |-> NoDF, kpi |-> NoKPI, figs |-> NoFigs,
                  page |-> Show(EmptyPage, <<"info">>), exc |-> NoExc]
        n == normalize_columns(f.table)
    IN  IF ~f.file THEN {blank}
        ELSE IF ~n.ok
        THEN {[blank EXCEPT !.pc = "crashed", !.df = f.table, !.exc = n.exc,
                            !.page = Show(EmptyPage, <<"exception">>)]}
        ELSE IF require_columns(n.df) # <<>>
        THEN {[blank EXCEPT !.df = n.df,
                            !.page = [elems |-> <<"error">>, missing |-> require_columns(n.df),
                                      metrics |-> NoMetrics]]}
        ELSE UNION {AfterSort(t) : t \in sort_values(n.df)}

\* C9: every run starts with nothing bound and an empty page, and ends with
\* a table, aggregates, figures, page and exception that are an outcome of
\* the script on the file of that run alone; a run without a file shows the
\* info message and no KPI or chart.
C9_RunOfUploadOnly ==
    /\ (pc = "load") =>
          /\ df = NoDF /\ df_norm = NoDF /\ kpi = NoKPI /\ figs = NoFigs
          /\ page = EmptyPage /\ exc = NoExc
    /\ (pc \in EndStates) =>
          [pc |-> pc, df |-> df, kpi |-> kpi, figs |-> figs, page |-> page, exc |-> exc]
              \in RunResults(uploaded)
    /\ (pc \in EndStates /\ ~uploaded.file) =>
          /\ page.elems = <<"info">>
          /\ ~kpi.set /\ ~figs.set /\ ~page.metrics.set

\* a complete dashboard; the session's first run had no file, so this is a
\* later run
C9_Witness ==
    /\ pc = "done"
    /\ uploaded.file
    /\ Len(df.rows) > 1

\* C10 as claimed: for every list of headers whose cells all parse,
\* normalize_columns returns a table, and no required name heads two of its
\* columns.
C10_Claim ==
    (uploaded.file /\ pc \notin {"load", "normalize"} /\ ~HasUnparseableCell(uploaded.table)) =>
        /\ Normalized
        /\ \A c \in Range(must) : Count(df_norm, c) <= 1

====
